---- MODULE Spec2Model ----
(***************************************************************************)
(* TaskPoint: task lifecycle and point award, as implemented by the HTTP   *)
(* handlers of registerRoutes (server/routes.ts, richer variant with       *)
(* assignment and completion) over DatabaseStorage (server/storage.ts)     *)
(* and the shared schema (6-status variant).                               *)
(*                                                                         *)
(* Every request handler is an async function: it runs up to its first     *)
(* storage call, and each later storage call is a separate atomic step of  *)
(* the database, so that the steps of different requests interleave.       *)
(* A storage call may fail (the promise rejects); the handler's catch      *)
(* block then answers with an error.                                       *)
(***************************************************************************)
EXTENDS Integers, Sequences, FiniteSets, TLC

\* ------------------------------------------------------------------ bounds
\* number of requests that are started in one behaviour
MaxOps == 3
\* number of requests that can be in flight at the same time
NumProcs == 2

Procs == 1..NumProcs

\* ------------------------------------------------------------- identities
NULL == "null"

\* the accounts of the identity store (users table), with their role column
UserIds == {"u1", "u2", "a1"}

role == [u \in UserIds |-> IF u = "a1" THEN "admin" ELSE "user"]

\* req.user of a request: an account, or NULL when req.isAuthenticated() is false
Callers == UserIds \cup {NULL}

IsAuthenticated(caller) == caller \in UserIds

\* mutant of IsAdmin: the role comparison is dropped
IsAdmin_NoRole(caller) == IsAuthenticated(caller)

\* the guard `!req.isAuthenticated() || req.user!.role !== "admin"`, negated
IsAdmin(caller) == IsAuthenticated(caller) /\ role[caller] = "admin"

\* ----------------------------------------------------------------- schema
taskStatusEnum == {"pending", "assigned", "in_progress", "completed", "approved", "rejected"}

taskTypeEnum == {"content_creation", "bug_report", "feature_request", "community_help", "documentation"}

\* mutant of TASK_POINTS: two rows of the table swapped
TASK_POINTS_Swapped(type) ==
  CASE type = "content_creation" -> 50
    [] type = "bug_report" -> 30
    [] type = "feature_request" -> 25
    [] type = "community_help" -> 20
    [] type = "documentation" -> 40
    [] OTHER -> 0

\* TASK_POINTS[type] || 0
TASK_POINTS(type) ==
  CASE type = "content_creation" -> 50
    [] type = "bug_report" -> 25
    [] type = "feature_request" -> 30
    [] type = "community_help" -> 20
    [] type = "documentation" -> 40
    [] OTHER -> 0

\* z.enum of updateTaskSchema.status
updateTaskStatusEnum == {"approved", "rejected", "in_progress", "completed", "assigned"}

\* a request body is a record that has a field only when the JSON has the key
HasKey(body, k) == k \in DOMAIN body

\* insertTaskSchema.parse succeeds: title/description/type present, type in the enum
\* (title and description are carried as the single key "text")
ValidInsertTask(body) ==
  /\ HasKey(body, "text")
  /\ HasKey(body, "type")
  /\ body.type \in taskTypeEnum

\* updateTaskSchema.parse succeeds: status in the enum, points a required integer,
\* rejectionReason optional text
ValidUpdateTask(body) ==
  /\ HasKey(body, "status")
  /\ body.status \in updateTaskStatusEnum
  /\ HasKey(body, "points")

\* assignTaskSchema.parse succeeds: title/description/type/points required,
\* assignedTo optional (nullable column), deadline a string (any string)
ValidAssignTask(body) ==
  /\ HasKey(body, "text")
  /\ HasKey(body, "type")
  /\ body.type \in taskTypeEnum
  /\ HasKey(body, "points")
  /\ HasKey(body, "deadline")

\* new Date(str): a date, or the Invalid Date for an unparseable string
ParseDeadline(str) == IF str = "2025-01-01" THEN "date" ELSE "InvalidDate"

\* a row of the tasks table (title/description left out; timestamps are NULL or "ts")
NewTaskRow ==
  [type |-> NULL, status |-> "pending", points |-> 0,
   submittedBy |-> NULL, assignedTo |-> NULL, assignedBy |-> NULL,
   reviewedBy |-> NULL, reviewedAt |-> NULL, rejectionReason |-> NULL,
   proofFile |-> NULL, deadline |-> NULL, completedAt |-> NULL]

\* UPDATE ... SET updates: the columns named by the update are overwritten
SetColumns(row, updates) ==
  [c \in DOMAIN row |-> IF c \in DOMAIN updates THEN updates[c] ELSE row[c]]

\* ------------------------------------------------------------------ state
VARIABLES
  tasks,        \* the tasks table: a sequence of rows, a task's id is its index
  totalPoints,  \* users.total_points, by user id
  req,          \* the request handled in each slot: position, inputs, locals, response
  ops,          \* number of requests started so far
  clients,      \* the Map `clients`: its entries [userId, conn] in insertion order
  readyState,   \* ws.readyState of each connection
  sent,         \* the messages written to sockets by the last step
  res           \* the response sent by the last step: the route and the HTTP status

vars == <<tasks, totalPoints, req, ops, clients, readyState, sent, res>>

\* connections of the WebSocket server
Conns == {"c1", "c2"}

NoBody == [none |-> NULL]

\* no response was sent
NoResponse == [op |-> "none", code |-> 0]

\* the columns of the row read by getTaskById that a handler uses after its first write
Snapshot(row) == [submittedBy |-> row.submittedBy, assignedBy |-> row.assignedBy]

IdleReq ==
  [pc |-> "idle", kind |-> "none", caller |-> NULL, id |-> 0,
   body |-> NoBody, task |-> Snapshot(NewTaskRow)]

Init ==
  /\ tasks = <<>>
  /\ totalPoints = [u \in UserIds |-> 0]
  /\ req = [p \in Procs |-> IdleReq]
  /\ ops = 0
  /\ clients = <<>>
  /\ readyState = [c \in Conns |-> "NONE"]
  /\ sent = {}
  /\ res = NoResponse

\* ---------------------------------------------------------------- storage
\* storage.getTaskById: the row, or undefined
TaskExists(id) == id \in 1..Len(tasks)

\* storage.createTask: INSERT with the status default 'pending'
createTask(task) == Append(tasks, SetColumns(NewTaskRow, task))

\* storage.assignTask: INSERT of the listed columns
assignTask(task) ==
  Append(tasks,
    SetColumns(NewTaskRow,
      [type |-> task.type, points |-> task.points, assignedTo |-> task.assignedTo,
       assignedBy |-> task.assignedBy, deadline |-> task.deadline, status |-> task.status]))

\* storage.updateTask: UPDATE tasks SET updates WHERE id = id
updateTask(id, updates) == [tasks EXCEPT ![id] = SetColumns(@, updates)]

\* mutant of completeTask: the row is replaced by the completion instead of updated
completeTask_Replace(id, completion) == [tasks EXCEPT ![id] = SetColumns(NewTaskRow, completion)]

\* storage.completeTask: UPDATE tasks SET completion WHERE id = id
completeTask(id, completion) == [tasks EXCEPT ![id] = SetColumns(@, completion)]

\* storage.updateUserPoints: total_points + pointsToAdd WHERE id = userId
\* (no row matches a null or unknown id)
updateUserPoints(userId, pointsToAdd) ==
  [u \in UserIds |-> IF u = userId THEN totalPoints[u] + pointsToAdd ELSE totalPoints[u]]

\* the foreign keys of an inserted row reference existing users
ForeignKeysOk(row) ==
  \A c \in {"submittedBy", "assignedTo", "assignedBy"} : row[c] \in UserIds \cup {NULL}

\* ---------------------------------------------------------- notifications
\* clients.get(userId): the connection of the entry with that key, or NULL (undefined)
clientsGet(userId) ==
  IF \E i \in 1..Len(clients) : clients[i].userId = userId
  THEN clients[CHOOSE i \in 1..Len(clients) : clients[i].userId = userId].conn
  ELSE NULL

\* clients.set(userId, ws): the value of an existing key is replaced in place, a new
\* key is added at the end
clientsSet(userId, ws) ==
  IF \E i \in 1..Len(clients) : clients[i].userId = userId
  THEN [i \in 1..Len(clients) |->
          IF clients[i].userId = userId THEN [userId |-> userId, conn |-> ws] ELSE clients[i]]
  ELSE Append(clients, [userId |-> userId, conn |-> ws])

\* mutant of clientsDeleteFirst: the comparison `client === ws` is dropped
clientsDeleteFirst_NoCompare(ws) ==
  IF Len(clients) > 0 THEN SubSeq(clients, 2, Len(clients)) ELSE clients

\* the close handler's loop: the first entry, in insertion order, whose value is ws is
\* deleted, and the loop breaks
clientsDeleteFirst(ws) ==
  IF \E i \in 1..Len(clients) : clients[i].conn = ws
  THEN LET first == CHOOSE i \in 1..Len(clients) :
                      /\ clients[i].conn = ws
                      /\ \A j \in 1..(i - 1) : clients[j].conn # ws
       IN SubSeq(clients, 1, first - 1) \o SubSeq(clients, first + 1, Len(clients))
  ELSE clients

\* mutant of sendNotification: the test of readyState is dropped
sendNotification_NoStateCheck(userId, type, taskId) ==
  IF clientsGet(userId) # NULL
  THEN {[conn |-> clientsGet(userId), type |-> type, taskId |-> taskId]}
  ELSE {}

\* app.locals.sendNotification: one send when the user has an open registered connection
sendNotification(userId, type, taskId) ==
  IF clientsGet(userId) # NULL /\ readyState[clientsGet(userId)] = "OPEN"
  THEN {[conn |-> clientsGet(userId), type |-> type, taskId |-> taskId]}
  ELSE {}

\* app.locals.notifyAdmins: `storage.db?.select()...|| []`; the storage object has
\* no db property, the optional chain yields undefined and the list is empty
adminUsers == {}

notifyAdmins(type, taskId) ==
  UNION {sendNotification(a, type, taskId) : a \in adminUsers}

\* ----------------------------------------------------------------- inputs
\* zod object parse: keys outside the schema are dropped
Strip(body, keys) == [k \in (DOMAIN body) \cap keys |-> body[k]]

\* bodies of POST /api/tasks
SubmitBodies ==
  {[text |-> "t", type |-> ty] : ty \in taskTypeEnum}
  \cup {[text |-> "t", type |-> "bug_report", proofFile |-> "f", submittedBy |-> "u2",
         status |-> "approved", points |-> 99],
        [text |-> "t", type |-> "bogus"],
        [type |-> "bug_report"]}

\* callers and bodies of POST /api/tasks: u1 sends every body, the others one
SubmitInputs ==
  ({"u1"} \X SubmitBodies) \cup ({"u2", "a1", NULL} \X {[text |-> "t", type |-> "bug_report"]})

\* bodies of PATCH /api/tasks/:id/review
ReviewBodies ==
  {[status |-> "approved", points |-> n] : n \in {0 - 5, 0, 10}}
  \cup {[status |-> "rejected", points |-> 0, rejectionReason |-> ""],
        [status |-> "rejected", points |-> 10, rejectionReason |-> "why"],
        [status |-> "rejected", points |-> 0]}
  \cup {[status |-> st, points |-> 0] : st \in {"in_progress", "completed", "assigned", "pending"}}
  \cup {[status |-> "approved"]}

\* callers and bodies of PATCH /api/tasks/:id/review: the admin sends every body,
\* the others a valid and an invalid one
ReviewInputs ==
  ({"a1"} \X ReviewBodies)
  \cup ({"u1", NULL} \X {[status |-> "approved", points |-> 10], [status |-> "approved"]})

\* bodies of POST /api/admin/assign-task
AssignBodies ==
  {[text |-> "t", type |-> "documentation", points |-> 15, assignedTo |-> u,
    deadline |-> "2025-01-01"] : u \in {"u1", "u2", "ghost"}}
  \cup {[text |-> "t", type |-> "documentation", assignedTo |-> "u1", deadline |-> "2025-01-01"],
        [text |-> "t", type |-> "documentation", points |-> 15, deadline |-> "2025-01-01"],
        [text |-> "t", type |-> "documentation", points |-> 15, assignedTo |-> "u1"],
        [text |-> "t", type |-> "documentation", points |-> 15, assignedTo |-> "u1",
         deadline |-> "soon"]}

\* callers and bodies of POST /api/admin/assign-task: the admin sends every body,
\* the others a valid and an invalid one
AssignInputs ==
  ({"a1"} \X AssignBodies)
  \cup ({"u1", NULL} \X
         {[text |-> "t", type |-> "documentation", points |-> 15, assignedTo |-> "u1",
           deadline |-> "2025-01-01"],
          [text |-> "t", type |-> "documentation", points |-> 15, assignedTo |-> "u1"]})

\* callers of the admin reads
ReadCallers == {"a1", "u1", NULL}

\* ids named by a request: the existing tasks and one that does not exist
TaskIdInputs == 1..(Len(tasks) + 1)

\* ---------------------------------------------------------------- requests
\* a request is started in the lowest slot that is not busy
Free(p) ==
  /\ ops < MaxOps
  /\ ops' = ops + 1
  /\ req[p].pc = "idle"
  /\ \A q \in Procs : q < p => req[q].pc # "idle"

\* res.status(code): the handler of slot p answers and ends
Respond(p, op, code) ==
  /\ req' = [req EXCEPT ![p] = IdleReq]
  /\ res' = [op |-> op, code |-> code]

\* the handler of slot p goes on to its next storage call
Continue(p, r) ==
  /\ req' = [req EXCEPT ![p] = r]
  /\ res' = NoResponse

Request(kind, caller, id, body) ==
  [pc |-> "start", kind |-> kind, caller |-> caller, id |-> id,
   body |-> body, task |-> Snapshot(NewTaskRow)]

\* POST /api/tasks
SubmitTask(p, caller, body, dbOk) ==
  LET validatedData == Strip(body, {"text", "type", "proofFile"})
      points == TASK_POINTS(validatedData.type)
      row == validatedData @@ [submittedBy |-> caller, points |-> points]
  IN /\ Free(p)
     /\ UNCHANGED <<totalPoints, clients, readyState>>
     /\ IF ~IsAuthenticated(caller)
        THEN /\ Respond(p, "submit", 401)
             /\ UNCHANGED tasks /\ sent' = {}
        ELSE IF ~ValidInsertTask(body) \/ ~dbOk
        THEN /\ Respond(p, "submit", 400)
             /\ UNCHANGED tasks /\ sent' = {}
        ELSE /\ tasks' = createTask(row)
             /\ sent' = notifyAdmins("task_submitted", Len(tasks) + 1)
             /\ Respond(p, "submit", 201)

\* POST /api/admin/assign-task
AssignTask(p, caller, body, dbOk) ==
  LET parsed == Strip(body, {"text", "type", "points", "assignedTo", "deadline"})
      validatedData == [parsed EXCEPT !.deadline = ParseDeadline(@)]
      task == validatedData @@ [assignedBy |-> caller, status |-> "assigned", assignedTo |-> NULL]
  IN /\ Free(p)
     /\ UNCHANGED <<totalPoints, clients, readyState>>
     /\ IF ~IsAdmin(caller)
        THEN /\ Respond(p, "assign", 403)
             /\ UNCHANGED tasks /\ sent' = {}
        ELSE IF \/ ~ValidAssignTask(body)
                \/ ~dbOk
                \/ ~ForeignKeysOk(SetColumns(NewTaskRow, task))
                \/ task.deadline = "InvalidDate"
        THEN /\ Respond(p, "assign", 400)
             /\ UNCHANGED tasks /\ sent' = {}
        ELSE /\ tasks' = assignTask(task)
             /\ sent' = sendNotification(task.assignedTo, "task_assigned", Len(tasks) + 1)
             /\ Respond(p, "assign", 201)

\* PATCH /api/tasks/:id/review, up to the result of storage.getTaskById
ReviewTask(p, caller, id, body, dbOk) ==
  LET r == Request("review", caller, id, body)
  IN /\ Free(p)
     /\ UNCHANGED <<tasks, totalPoints, clients, readyState>>
     /\ sent' = {}
     /\ IF ~IsAdmin(caller)
        THEN Respond(p, "review", 403)
        ELSE IF ~ValidUpdateTask(body) \/ ~dbOk
        THEN Respond(p, "review", 400)
        ELSE IF ~TaskExists(id)
        THEN Respond(p, "review", 404)
        ELSE /\ Continue(p, [r EXCEPT !.pc = "updateTask", !.task = Snapshot(tasks[id])])

\* the notification and the response that end a successful review
ReviewNotify(p) ==
  /\ sent' = sendNotification(req[p].task.submittedBy, "task_reviewed", req[p].id)
  /\ Respond(p, "review", 200)

\* mutant of ReviewUpdateTask: points are credited whatever the decision
ReviewUpdateTask_AnyDecision(p, dbOk) ==
  LET validatedData == Strip(req[p].body, {"status", "points", "rejectionReason"})
      updates == validatedData @@ [reviewedBy |-> req[p].caller, reviewedAt |-> "ts"]
  IN /\ req[p].pc = "updateTask"
     /\ UNCHANGED <<totalPoints, ops, clients, readyState>>
     /\ IF ~dbOk
        THEN /\ UNCHANGED tasks /\ sent' = {}
             /\ Respond(p, "review", 400)
        ELSE /\ tasks' = updateTask(req[p].id, updates)
             /\ IF validatedData.points # 0
                THEN /\ Continue(p, [req[p] EXCEPT !.pc = "updateUserPoints"])
                     /\ sent' = {}
                ELSE ReviewNotify(p)

\* PATCH /api/tasks/:id/review: storage.updateTask and what follows it
ReviewUpdateTask(p, dbOk) ==
  LET validatedData == Strip(req[p].body, {"status", "points", "rejectionReason"})
      updates == validatedData @@ [reviewedBy |-> req[p].caller, reviewedAt |-> "ts"]
  IN /\ req[p].pc = "updateTask"
     /\ UNCHANGED <<totalPoints, ops, clients, readyState>>
     /\ IF ~dbOk
        THEN /\ UNCHANGED tasks /\ sent' = {}
             /\ Respond(p, "review", 400)
        ELSE /\ tasks' = updateTask(req[p].id, updates)
             /\ IF validatedData.status = "approved" /\ validatedData.points # 0
                THEN /\ Continue(p, [req[p] EXCEPT !.pc = "updateUserPoints"])
                     /\ sent' = {}
                ELSE ReviewNotify(p)

\* mutant of ReviewUpdateUserPoints: the notification is sent although the credit failed
ReviewUpdateUserPoints_NotifyOnFailure(p, dbOk) ==
  /\ req[p].pc = "updateUserPoints"
  /\ UNCHANGED <<tasks, ops, clients, readyState>>
  /\ IF ~dbOk
     THEN /\ UNCHANGED totalPoints
          /\ sent' = sendNotification(req[p].task.submittedBy, "task_reviewed", req[p].id)
          /\ Respond(p, "review", 400)
     ELSE /\ totalPoints' = updateUserPoints(req[p].task.submittedBy, req[p].body.points)
          /\ ReviewNotify(p)

\* PATCH /api/tasks/:id/review: storage.updateUserPoints and what follows it
ReviewUpdateUserPoints(p, dbOk) ==
  /\ req[p].pc = "updateUserPoints"
  /\ UNCHANGED <<tasks, ops, clients, readyState>>
  /\ IF ~dbOk
     THEN /\ UNCHANGED totalPoints /\ sent' = {}
          /\ Respond(p, "review", 400)
     ELSE /\ totalPoints' = updateUserPoints(req[p].task.submittedBy, req[p].body.points)
          /\ ReviewNotify(p)

\* mutant of CompleteTask: the test of the task's status is dropped
CompleteTask_NoStatusCheck(p, caller, id, hasFile, dbOk) ==
  LET r == Request("complete", caller, id, [hasFile |-> hasFile])
  IN /\ Free(p)
     /\ UNCHANGED <<tasks, totalPoints, clients, readyState>>
     /\ sent' = {}
     /\ IF ~IsAuthenticated(caller)
        THEN Respond(p, "complete", 401)
        ELSE IF ~dbOk
        THEN Respond(p, "complete", 500)
        ELSE IF ~TaskExists(id) \/ tasks[id].assignedTo # caller
        THEN Respond(p, "complete", 404)
        ELSE /\ Continue(p, [r EXCEPT !.pc = "completeTask", !.task = Snapshot(tasks[id])])

\* POST /api/tasks/:id/complete, up to the result of storage.getTaskById
CompleteTask(p, caller, id, hasFile, dbOk) ==
  LET r == Request("complete", caller, id, [hasFile |-> hasFile])
  IN /\ Free(p)
     /\ UNCHANGED <<tasks, totalPoints, clients, readyState>>
     /\ sent' = {}
     /\ IF ~IsAuthenticated(caller)
        THEN Respond(p, "complete", 401)
        ELSE IF ~dbOk
        THEN Respond(p, "complete", 500)
        ELSE IF ~TaskExists(id) \/ tasks[id].assignedTo # caller
        THEN Respond(p, "complete", 404)
        ELSE IF tasks[id].status # "assigned" /\ tasks[id].status # "in_progress"
        THEN Respond(p, "complete", 400)
        ELSE /\ Continue(p, [r EXCEPT !.pc = "completeTask", !.task = Snapshot(tasks[id])])

\* POST /api/tasks/:id/complete: storage.completeTask and what follows it
CompleteWrite(p, dbOk) ==
  LET proof == IF req[p].body.hasFile THEN [proofFile |-> "f"] ELSE [status |-> "completed"]
      completion == proof @@ [status |-> "completed", completedAt |-> "ts"]
  IN /\ req[p].pc = "completeTask"
     /\ UNCHANGED <<totalPoints, ops, clients, readyState>>
     /\ IF ~dbOk
        THEN /\ UNCHANGED tasks /\ sent' = {}
             /\ Respond(p, "complete", 500)
        ELSE /\ tasks' = completeTask(req[p].id, completion)
             /\ sent' = IF req[p].task.assignedBy # NULL
                        THEN sendNotification(req[p].task.assignedBy, "task_completed", req[p].id)
                        ELSE {}
             /\ Respond(p, "complete", 200)

\* storage.getPendingTasks
getPendingTasks == {id \in 1..Len(tasks) : tasks[id].status = "pending"}

\* storage.getAdminStats, pointsDistributed: SUM(total_points) over role = 'user'
RECURSIVE SumPoints(_)
SumPoints(S) ==
  IF S = {} THEN 0
  ELSE LET u == CHOOSE x \in S : TRUE IN totalPoints[u] + SumPoints(S \ {u})

pointsDistributed == SumPoints({u \in UserIds : role[u] = "user"})

\* GET /api/tasks/pending (a read: the state keeps only the status answered)
GetPendingTasks(p, caller, dbOk) ==
  /\ Free(p)
  /\ UNCHANGED <<tasks, totalPoints, clients, readyState>>
  /\ sent' = {}
  /\ IF ~IsAdmin(caller)
     THEN Respond(p, "pendingTasks", 403)
     ELSE IF ~dbOk
     THEN Respond(p, "pendingTasks", 500)
     ELSE Respond(p, "pendingTasks", 200)

\* GET /api/admin/stats (a read: the state keeps only the status answered)
GetAdminStats(p, caller, dbOk) ==
  /\ Free(p)
  /\ UNCHANGED <<tasks, totalPoints, clients, readyState>>
  /\ sent' = {}
  /\ IF ~IsAdmin(caller)
     THEN Respond(p, "adminStats", 403)
     ELSE IF ~dbOk
     THEN Respond(p, "adminStats", 500)
     ELSE Respond(p, "adminStats", 200)

\* mutant of getUserStatsRank: the rank counts the accounts with fewer points
getUserStatsRank_Ascending(userId) ==
  IF userId \notin UserIds \/ role[userId] # "user" THEN 0
  ELSE 1 + Cardinality({v \in UserIds : role[v] = "user" /\ totalPoints[v] < totalPoints[userId]})

\* storage.getUserStats, rank: SELECT ROW_NUMBER() OVER (ORDER BY total_points DESC)
\* FROM users WHERE role = 'user' AND id = userId. The window numbers the rows that
\* pass the WHERE clause; `rankResult?.rank || 0` gives 0 when no row passes
getUserStatsRank(userId) ==
  LET rows == {u \in UserIds : role[u] = "user" /\ u = userId}
  IN IF userId \notin rows THEN 0
     ELSE 1 + Cardinality({v \in rows : totalPoints[v] > totalPoints[userId]})

\* GET /api/user/stats (a read: the state keeps the status and the rank answered;
\* the rank does not depend on how the three reads of getUserStats interleave with writes)
GetUserStats(p, caller, dbOk) ==
  /\ Free(p)
  /\ UNCHANGED <<tasks, totalPoints, clients, readyState>>
  /\ sent' = {}
  /\ IF ~IsAuthenticated(caller)
     THEN Respond(p, "userStats", 401)
     ELSE IF ~dbOk
     THEN Respond(p, "userStats", 500)
     ELSE /\ req' = [req EXCEPT ![p] = IdleReq]
          /\ res' = [op |-> "userStats", code |-> 200, rank |-> getUserStatsRank(caller)]

\* the account whose client opens each connection; the connection handler receives
\* the upgrade request and does not read it
Opener == [c \in Conns |-> IF c = "c1" THEN "u1" ELSE "u2"]

\* wss.on('connection'): a client connects; the connections are used in order
WsConnect(c) ==
  /\ readyState[c] = "NONE"
  /\ c = "c2" => readyState["c1"] # "NONE"
  /\ readyState' = [readyState EXCEPT ![c] = "OPEN"]
  /\ sent' = {}
  /\ res' = NoResponse
  /\ UNCHANGED <<tasks, totalPoints, req, ops, clients>>

\* ws.on('message'): an identify message naming userId arrives on connection c
WsIdentify(c, userId) ==
  /\ ops < MaxOps
  /\ ops' = ops + 1
  /\ readyState[c] = "OPEN"
  /\ clients' = clientsSet(userId, c)
  /\ sent' = {}
  /\ res' = NoResponse
  /\ UNCHANGED <<tasks, totalPoints, req, readyState>>

\* ws.on('close'): connection c closes
WsClose(c) ==
  /\ readyState[c] = "OPEN"
  /\ readyState' = [readyState EXCEPT ![c] = "CLOSED"]
  /\ clients' = clientsDeleteFirst(c)
  /\ sent' = {}
  /\ res' = NoResponse
  /\ UNCHANGED <<tasks, totalPoints, req, ops>>

Next ==
  \E p \in Procs :
    \/ \E in \in SubmitInputs, dbOk \in BOOLEAN :
         SubmitTask(p, in[1], in[2], dbOk)
    \/ \E in \in AssignInputs, dbOk \in BOOLEAN :
         AssignTask(p, in[1], in[2], dbOk)
    \/ \E in \in ReviewInputs, id \in TaskIdInputs, dbOk \in BOOLEAN :
         ReviewTask(p, in[1], id, in[2], dbOk)
    \/ \E dbOk \in BOOLEAN : ReviewUpdateTask(p, dbOk)
    \/ \E dbOk \in BOOLEAN : ReviewUpdateUserPoints(p, dbOk)
    \/ \E caller \in Callers, id \in TaskIdInputs, hasFile \in BOOLEAN, dbOk \in BOOLEAN :
         CompleteTask(p, caller, id, hasFile, dbOk)
    \/ \E dbOk \in BOOLEAN : CompleteWrite(p, dbOk)
    \/ \E caller \in ReadCallers, dbOk \in BOOLEAN : GetPendingTasks(p, caller, dbOk)
    \/ \E caller \in ReadCallers, dbOk \in BOOLEAN : GetAdminStats(p, caller, dbOk)
    \/ \E caller \in Callers, dbOk \in BOOLEAN : GetUserStats(p, caller, dbOk)

\* the HTTP handlers alone: no client ever opens a WebSocket connection
Spec == Init /\ [][Next]_vars

\* the events of the WebSocket server
WsNext ==
  \E c \in Conns :
    \/ WsConnect(c)
    \/ \E userId \in UserIds : WsIdentify(c, userId)
    \/ WsClose(c)

\* the HTTP handlers together with the WebSocket server
SpecWs == Init /\ [][Next \/ WsNext]_vars

\* ===================================================================== claims
Terminal == {"approved", "rejected"}

\* the user a task belongs to: its submitter, or its assignee when it has no submitter
Recipient(row) == IF row.submittedBy # NULL THEN row.submittedBy ELSE row.assignedTo

\* the caller holds no admin role (an account with another role, or no session)
NonAdmin(c) == c \notin UserIds \/ role[c] # "admin"

\* the handler of slot p has ended without touching the store
Untouched(p) == req'[p] = IdleReq /\ tasks' = tasks /\ totalPoints' = totalPoints

\* C1: a review call by an admin on a task whose status is approved or rejected fails
\* with an error and changes neither the task nor any user's total points
C1_ReReviewFails ==
  [][\A p \in Procs, in \in ReviewInputs, id \in TaskIdInputs, dbOk \in BOOLEAN :
       (/\ ReviewTask(p, in[1], id, in[2], dbOk)
        /\ ~NonAdmin(in[1])
        /\ TaskExists(id)
        /\ tasks[id].status \in Terminal)
       => (res'.code = 400 /\ Untouched(p))]_vars

\* a review in flight whose status update has been applied and whose credit is due
Applied(p) == req[p].kind = "review" /\ req[p].pc = "updateUserPoints"

\* C2: of two concurrent approvals of the same task with the same points, exactly one
\* is applied (never both), so that the points are credited once
C2_ExactlyOneApplied ==
  \A p, q \in Procs :
    ~(/\ p # q
      /\ Applied(p) /\ Applied(q)
      /\ req[p].id = req[q].id
      /\ req[p].body = req[q].body
      /\ req[p].body.points > 0)

\* C3: in every state, a task approved with P > 0 points has its recipient credited,
\* and a user holding points has an approved task
C3_ApprovalAtomic ==
  /\ \A id \in 1..Len(tasks) :
       (/\ tasks[id].status = "approved"
        /\ tasks[id].points > 0
        /\ Recipient(tasks[id]) \in UserIds)
       => totalPoints[Recipient(tasks[id])] >= tasks[id].points
  /\ \A u \in UserIds :
       totalPoints[u] > 0 =>
         \E id \in 1..Len(tasks) : tasks[id].status = "approved" /\ Recipient(tasks[id]) = u

\* C4: the credit of an approval with P points goes to the task's submitter, or to its
\* assignee when the task has no submitter, whose total grows by P
C4_CreditsRecipient ==
  [][\A p \in Procs :
       (/\ ReviewUpdateUserPoints(p, TRUE)
        /\ req[p].body.points > 0
        /\ Recipient(tasks[req[p].id]) \in UserIds)
       => totalPoints'[Recipient(tasks[req[p].id])]
            = totalPoints[Recipient(tasks[req[p].id])] + req[p].body.points]_vars

\* C5: a review with decision rejected and an empty or missing rejection reason fails
\* with a validation error and leaves the task as it is
C5_RejectionNeedsReason ==
  [][\A p \in Procs, in \in ReviewInputs, id \in TaskIdInputs, dbOk \in BOOLEAN :
       (/\ ReviewTask(p, in[1], id, in[2], dbOk)
        /\ ~NonAdmin(in[1])
        /\ TaskExists(id)
        /\ HasKey(in[2], "points")
        /\ in[2].status = "rejected"
        /\ (~HasKey(in[2], "rejectionReason") \/ in[2].rejectionReason = ""))
       => (res'.code = 400 /\ Untouched(p))]_vars

\* C6: review, assign, pending-list and admin-stats requests of a caller who is not an
\* admin are answered 403 whatever the body, and change no task and no user
C6_NonAdminForbidden ==
  [][\A p \in Procs, c \in {x \in Callers : NonAdmin(x)}, dbOk \in BOOLEAN :
       /\ \A in \in ReviewInputs, id \in TaskIdInputs :
            ReviewTask(p, c, id, in[2], dbOk) => (res'.code = 403 /\ Untouched(p))
       /\ \A in \in AssignInputs :
            AssignTask(p, c, in[2], dbOk) => (res'.code = 403 /\ Untouched(p))
       /\ GetPendingTasks(p, c, dbOk) => (res'.code = 403 /\ Untouched(p))
       /\ GetAdminStats(p, c, dbOk) => (res'.code = 403 /\ Untouched(p))]_vars

\* reached: a non-admin's assign request was refused while a task exists
C6_Witness == res = [op |-> "assign", code |-> 403] /\ Len(tasks) > 0

\* C7: no step lowers a user's total points or makes it negative, and only the credit
\* of an approving review changes a total
C7_PointsMonotone ==
  [][/\ \A u \in UserIds : totalPoints'[u] >= totalPoints[u] /\ totalPoints'[u] >= 0
     /\ totalPoints' # totalPoints =>
          \E p \in Procs : Applied(p) /\ req[p].body.status = "approved"]_vars

\* the edges of the status state machine
StatusEdges ==
  {<<"pending", "approved">>, <<"pending", "rejected">>,
   <<"assigned", "in_progress">>, <<"assigned", "completed">>,
   <<"in_progress", "completed">>,
   <<"completed", "approved">>, <<"completed", "rejected">>}

\* C8: every change of a task's status follows an edge of the state machine
C8_LegalTransitions ==
  [][\A id \in 1..Len(tasks) :
       tasks'[id].status # tasks[id].status
         => <<tasks[id].status, tasks'[id].status>> \in StatusEdges]_vars

\* C9: a review whose status field is neither approved nor rejected is answered 400
\* and leaves the task as it is
C9_OnlyDecisions ==
  [][\A p \in Procs, in \in ReviewInputs, id \in TaskIdInputs, dbOk \in BOOLEAN :
       (/\ ReviewTask(p, in[1], id, in[2], dbOk)
        /\ ~NonAdmin(in[1])
        /\ TaskExists(id)
        /\ HasKey(in[2], "points")
        /\ in[2].status \notin {"approved", "rejected"})
       => (res'.code = 400 /\ Untouched(p))]_vars

\* the point table as the specification states it
StatedPoints(type) ==
  CASE type = "content_creation" -> 50
    [] type = "bug_report" -> 25
    [] type = "feature_request" -> 30
    [] type = "community_help" -> 20
    [] type = "documentation" -> 40

\* C10: a successful submit by user U appends exactly one task, pending, submitted by U,
\* without assignee, assigner or deadline, with the points the table gives its type,
\* and changes no other task and no user's total points
C10_SubmitCreatesPending ==
  [][\A p \in Procs, in \in SubmitInputs, dbOk \in BOOLEAN :
       (SubmitTask(p, in[1], in[2], dbOk) /\ res'.code = 201)
       => /\ in[1] \in UserIds
          /\ in[2].type \in taskTypeEnum
          /\ Len(tasks') = Len(tasks) + 1
          /\ SubSeq(tasks', 1, Len(tasks)) = tasks
          /\ tasks'[Len(tasks')].status = "pending"
          /\ tasks'[Len(tasks')].submittedBy = in[1]
          /\ tasks'[Len(tasks')].assignedTo = NULL
          /\ tasks'[Len(tasks')].assignedBy = NULL
          /\ tasks'[Len(tasks')].deadline = NULL
          /\ tasks'[Len(tasks')].points = StatedPoints(in[2].type)
          /\ totalPoints' = totalPoints]_vars

\* reached: a second task was submitted after a first one was approved with points
C10_Witness ==
  /\ res = [op |-> "submit", code |-> 201]
  /\ Len(tasks) = 2
  /\ tasks[2].status = "pending" /\ tasks[2].submittedBy = "u1"
  /\ tasks[1].status = "approved"
  /\ totalPoints["u1"] = 10

\* an assign request that names an existing assignee and a parseable deadline
WellFormedAssign(body) ==
  /\ HasKey(body, "text") /\ HasKey(body, "type") /\ body.type \in taskTypeEnum
  /\ HasKey(body, "assignedTo") /\ body.assignedTo \in UserIds
  /\ HasKey(body, "deadline") /\ ParseDeadline(body.deadline) = "date"

\* C11: an admin's assign request for an existing assignee V, with a deadline, creates
\* exactly one task, assigned, without submitter, with assignee V and the admin as
\* assigner; its points are the request's points, or the table value of its type when
\* the request gives none
C11_AssignCreatesAssigned ==
  [][\A p \in Procs, in \in AssignInputs :
       (/\ AssignTask(p, in[1], in[2], TRUE)
        /\ IsAdmin(in[1])
        /\ WellFormedAssign(in[2]))
       => /\ res'.code = 201
          /\ Len(tasks') = Len(tasks) + 1
          /\ SubSeq(tasks', 1, Len(tasks)) = tasks
          /\ tasks'[Len(tasks')].status = "assigned"
          /\ tasks'[Len(tasks')].submittedBy = NULL
          /\ tasks'[Len(tasks')].assignedTo = in[2].assignedTo
          /\ tasks'[Len(tasks')].assignedBy = in[1]
          /\ tasks'[Len(tasks')].points =
               IF HasKey(in[2], "points") THEN in[2].points ELSE StatedPoints(in[2].type)]_vars

\* C12: an admin's assign request without a deadline, or whose assignee is no account
\* (or is not given), is answered 400 and creates no task
C12_AssignValidates ==
  [][\A p \in Procs, in \in AssignInputs, dbOk \in BOOLEAN :
       (/\ AssignTask(p, in[1], in[2], dbOk)
        /\ IsAdmin(in[1])
        /\ \/ ~HasKey(in[2], "deadline")
           \/ ~HasKey(in[2], "assignedTo")
           \/ in[2].assignedTo \notin UserIds)
       => (res'.code = 400 /\ Untouched(p))]_vars

\* C13: a complete request of an authenticated user is answered with an error and
\* changes nothing when the task does not exist or is not assigned to the caller (404)
\* and when the caller's task is neither assigned nor in progress (400)
C13_CompleteRefuses ==
  [][\A p \in Procs, c \in UserIds, id \in TaskIdInputs, hasFile \in BOOLEAN, dbOk \in BOOLEAN :
       CompleteTask(p, c, id, hasFile, dbOk) =>
         /\ (~TaskExists(id) \/ tasks[id].assignedTo # c)
              => /\ res'.code = (IF dbOk THEN 404 ELSE 500)
                 /\ Untouched(p)
         /\ (/\ TaskExists(id)
             /\ tasks[id].assignedTo = c
             /\ tasks[id].status \notin {"assigned", "in_progress"})
              => /\ res'.code = (IF dbOk THEN 400 ELSE 500)
                 /\ Untouched(p)]_vars

\* reached: the assignee's second complete request on a completed task was refused
C13_Witness ==
  /\ res = [op |-> "complete", code |-> 400]
  /\ Len(tasks) = 1
  /\ tasks[1].status = "completed" /\ tasks[1].assignedTo = "u1"

\* C14: a successful complete sets the task's status to completed, its completion
\* timestamp and, when a file was uploaded, its proof reference; it leaves the task's
\* points, reviewer, submitter, assignee and assigner, every other task and every
\* user's total points as they were
C14_CompleteFrame ==
  [][\A p \in Procs :
       CompleteWrite(p, TRUE) =>
         LET id == req[p].id IN
         /\ res'.code = 200
         /\ Len(tasks') = Len(tasks)
         /\ tasks'[id].status = "completed"
         /\ tasks'[id].completedAt = "ts"
         /\ tasks'[id].proofFile = (IF req[p].body.hasFile THEN "f" ELSE tasks[id].proofFile)
         /\ \A c \in {"type", "points", "reviewedBy", "reviewedAt", "rejectionReason",
                      "submittedBy", "assignedTo", "assignedBy", "deadline"} :
              tasks'[id][c] = tasks[id][c]
         /\ \A other \in 1..Len(tasks) : other # id => tasks'[other] = tasks[other]
         /\ totalPoints' = totalPoints]_vars

\* reached: the assignee completed an assigned task with a proof file
C14_Witness ==
  /\ res = [op |-> "complete", code |-> 200]
  /\ Len(tasks) = 1
  /\ tasks[1].status = "completed" /\ tasks[1].completedAt = "ts"
  /\ tasks[1].proofFile = "f"
  /\ tasks[1].assignedTo = "u1" /\ tasks[1].assignedBy = "a1" /\ tasks[1].points = 15

\* C15: the write of a review with decision rejected ends the request with 200, sets
\* the task's status to rejected, its reviewer to the calling admin and its review
\* timestamp, and changes no user's total points, whatever points the request carries
C15_RejectionFrame ==
  [][\A p \in Procs :
       (ReviewUpdateTask(p, TRUE) /\ req[p].body.status = "rejected")
       => /\ res' = [op |-> "review", code |-> 200]
          /\ req'[p] = IdleReq
          /\ tasks'[req[p].id].status = "rejected"
          /\ tasks'[req[p].id].reviewedBy = req[p].caller
          /\ tasks'[req[p].id].reviewedAt = "ts"
          /\ totalPoints' = totalPoints]_vars

\* reached: a rejection that carried 10 points was applied and nobody was credited
C15_Witness ==
  /\ res = [op |-> "review", code |-> 200]
  /\ Len(tasks) = 1
  /\ tasks[1].status = "rejected" /\ tasks[1].points = 10
  /\ tasks[1].reviewedBy = "a1" /\ tasks[1].reviewedAt = "ts"
  /\ \A u \in UserIds : totalPoints[u] = 0
  /\ \A p \in Procs : req[p] = IdleReq

\* the role=user accounts that hold strictly more points than user u
Ahead(u) == {v \in UserIds : role[v] = "user" /\ totalPoints[v] > totalPoints[u]}

\* the role=user accounts other than u that hold as many points as u
Level(u) == {v \in UserIds \ {u} : role[v] = "user" /\ totalPoints[v] = totalPoints[u]}

\* C16: the rank answered to a role=user account is its 1-based position among the
\* role=user accounts ordered by total points, descending: above the number of accounts
\* with strictly more points, and at most that number plus the ties plus one
C16_RankIsPosition ==
  [][\A p \in Procs, c \in UserIds :
       (/\ GetUserStats(p, c, TRUE)
        /\ role[c] = "user"
        /\ \A v \in UserIds : totalPoints[v] >= 0)
       => /\ res'.rank > Cardinality(Ahead(c))
          /\ res'.rank <= Cardinality(Ahead(c)) + Cardinality(Level(c)) + 1]_vars

\* C17: a step that raises one user's total points and leaves the others' alone does
\* not make the rank computed for that user larger
C17_RankMonotone ==
  [][\A u \in UserIds :
       (/\ totalPoints'[u] > totalPoints[u]
        /\ \A v \in UserIds \ {u} : totalPoints'[v] = totalPoints[v])
       => getUserStatsRank(u)' <= getUserStatsRank(u)]_vars

\* reached: a user was credited 10 points and then asked for their stats
C17_Witness ==
  /\ res = [op |-> "userStats", code |-> 200, rank |-> 1]
  /\ totalPoints["u1"] = 10 /\ totalPoints["u2"] = 0

\* the routes that change tasks or users
MutatingOps == {"submit", "assign", "complete", "review"}

\* C18: a task-mutating request that is answered with an error has changed no task and
\* no user: the answering step writes nothing, and the handler that answers has applied
\* no earlier write
C18_ErrorMeansNoChange ==
  [][(res'.op \in MutatingOps /\ res'.code >= 400)
       => /\ tasks' = tasks
          /\ totalPoints' = totalPoints
          /\ \A p \in Procs : (req[p].pc # "idle" /\ req'[p] = IdleReq) => ~Applied(p)]_vars

\* C19: every task has a submitter and neither assignee nor assigner, or an assignee
\* and an assigner and no submitter
C19_SubmitterOrAssignee ==
  \A id \in 1..Len(tasks) :
    \/ /\ tasks[id].submittedBy # NULL
       /\ tasks[id].assignedTo = NULL
       /\ tasks[id].assignedBy = NULL
    \/ /\ tasks[id].submittedBy = NULL
       /\ tasks[id].assignedTo # NULL
       /\ tasks[id].assignedBy # NULL

\* user u has identified on a connection that is open
Connected(u) == clientsGet(u) # NULL /\ readyState[clientsGet(u)] = "OPEN"

\* C20: the step that answers a review with 200 sends a task_reviewed event to the
\* task's recipient, its submitter or else its assignee, when that user has identified
\* on an open connection
C20_ReviewedDelivered ==
  [][\A p \in Procs :
       (/\ req[p].kind = "review"
        /\ req'[p] = IdleReq
        /\ res' = [op |-> "review", code |-> 200]
        /\ Recipient(tasks[req[p].id]) \in UserIds
        /\ Connected(Recipient(tasks[req[p].id])))
       => [conn |-> clientsGet(Recipient(tasks[req[p].id])),
           type |-> "task_reviewed",
           taskId |-> req[p].id] \in sent']_vars

\* C21: the step that answers a submit with 201 sends a task_submitted event for the
\* new task to every admin account that has identified on an open connection
C21_SubmittedFanOut ==
  [][(res' = [op |-> "submit", code |-> 201] /\ Len(tasks') = Len(tasks) + 1)
       => \A a \in UserIds :
            (role[a] = "admin" /\ Connected(a))
            => [conn |-> clientsGet(a),
                type |-> "task_submitted",
                taskId |-> Len(tasks')] \in sent']_vars

\* what the registry holds for user u: an open connection, a closed one, or no entry
Delivery(u) ==
  IF clientsGet(u) = NULL THEN "none"
  ELSE IF readyState[clientsGet(u)] = "OPEN" THEN "open" ELSE "closed"

\* the handler of slot p, of the given kind, ends with this step
Ends(p, kind) == req[p].kind = kind /\ req[p].pc # "idle" /\ req'[p] = IdleReq

\* C22: delivery does not affect the operation that triggers it. A step that writes a
\* task or a user never answers an error; a successful assign, complete or review has
\* applied its write whatever the registry holds for the recipient, and sends nothing
\* when that is a closed connection or no entry; events are only written to open
\* connections; and the events of the WebSocket server change no task, user or request
C22_DeliveryIndependent ==
  [][/\ (tasks' # tasks \/ totalPoints' # totalPoints) => res'.code \in {0, 200, 201}
     /\ res' = [op |-> "assign", code |-> 201]
          => /\ Len(tasks') = Len(tasks) + 1
             /\ Delivery(tasks'[Len(tasks')].assignedTo) # "open" => sent' = {}
     /\ \A p \in Procs :
          (Ends(p, "complete") /\ res' = [op |-> "complete", code |-> 200])
          => /\ tasks'[req[p].id].status = "completed"
             /\ Delivery(req[p].task.assignedBy) # "open" => sent' = {}
     /\ \A p \in Procs :
          (Ends(p, "review") /\ res' = [op |-> "review", code |-> 200])
          => (Delivery(req[p].task.submittedBy) # "open" => sent' = {})
     /\ \A e \in sent' : readyState[e.conn] = "OPEN"
     /\ (clients' # clients \/ readyState' # readyState)
          => UNCHANGED <<tasks, totalPoints, req>>]_vars

\* reached: a task was assigned to a user whose registered connection is closed, the
\* request was answered 201 and nothing was sent
C22_Witness ==
  /\ res = [op |-> "assign", code |-> 201]
  /\ sent = {}
  /\ tasks[Len(tasks)].assignedTo = "u2"
  /\ clientsGet("u2") = "c1"
  /\ readyState["c1"] = "CLOSED"

\* the sum of the points of the first n tasks that are approved and belong to user u
RECURSIVE ApprovedPoints(_, _)
ApprovedPoints(u, n) ==
  IF n = 0 THEN 0
  ELSE ApprovedPoints(u, n - 1)
       + (IF tasks[n].status = "approved" /\ Recipient(tasks[n]) = u THEN tasks[n].points ELSE 0)

\* no request is in flight
Quiescent == \A p \in Procs : req[p] = IdleReq

\* C23: when no request is in flight, the total points of every role=user account are
\* the sum of the points of the approved tasks whose recipient the account is
C23_TotalIsSumOfApproved ==
  Quiescent =>
    \A u \in UserIds :
      role[u] = "user" => totalPoints[u] = ApprovedPoints(u, Len(tasks))

\* C24: the write of a completion never lands on a task that a review has meanwhile
\* approved or rejected, so a reviewed task is not set back to completed
C24_CompletionKeepsReview ==
  [][\A p \in Procs :
       CompleteWrite(p, TRUE) => tasks[req[p].id].status \notin Terminal]_vars

\* C25: once the close of a connection has been handled, no entry of the registry maps
\* a user id to that connection
C25_ClosedConnectionUnregistered ==
  \A c \in Conns :
    readyState[c] = "CLOSED" => \A i \in 1..Len(clients) : clients[i].conn # c

\* C26: an identify naming user u on connection c makes the registry map u to c,
\* replacing an older connection; the close of a connection other than the one u is
\* mapped to leaves u's entry alone; and an event for an assignee whose entry is an
\* open connection is written to that connection
C26_NewerConnectionWins ==
  [][/\ \A c \in Conns, u \in UserIds :
          /\ WsIdentify(c, u) => clientsGet(u)' = c
          /\ (WsClose(c) /\ clientsGet(u) # NULL /\ clientsGet(u) # c)
               => clientsGet(u)' = clientsGet(u)
     /\ (res' = [op |-> "assign", code |-> 201]
          /\ Delivery(tasks'[Len(tasks')].assignedTo) = "open")
          => [conn |-> clientsGet(tasks'[Len(tasks')].assignedTo),
              type |-> "task_assigned",
              taskId |-> Len(tasks')] \in sent']_vars

\* reached: the older connection c1 is closed, the registry maps u1 to the newer
\* connection c2, and the event of a task assigned to u1 was written to c2
C26_Witness ==
  /\ readyState["c1"] = "CLOSED" /\ readyState["c2"] = "OPEN"
  /\ clients = <<[userId |-> "u1", conn |-> "c2"]>>
  /\ ops = 3
  /\ res = [op |-> "assign", code |-> 201]
  /\ sent = {[conn |-> "c2", type |-> "task_assigned", taskId |-> 1]}

\* C27: the event of a task assigned to user U is only written to a connection that
\* U's client opened
C27_EventsReachOwnerOnly ==
  [][res' = [op |-> "assign", code |-> 201]
       => \A e \in sent' : Opener[e.conn] = tasks'[Len(tasks')].assignedTo]_vars

\* C28: a task has a reviewer and a review timestamp exactly when its status is
\* approved or rejected
C28_ReviewerIffReviewed ==
  \A id \in 1..Len(tasks) :
    (tasks[id].reviewedBy # NULL /\ tasks[id].reviewedAt # NULL)
      <=> tasks[id].status \in Terminal

\* C29: a task in status completed has a completion timestamp and an assignee
C29_CompletedByAssignee ==
  \A id \in 1..Len(tasks) :
    tasks[id].status = "completed"
      => (tasks[id].completedAt # NULL /\ tasks[id].assignedTo # NULL)

\* C30: an event is written only by the step that answers its operation with success,
\* after the write it reports: task_submitted and task_assigned name the row just
\* inserted, task_completed a task just stored as completed, task_reviewed the task of
\* a review whose status update and, when a credit is due, whose credit are applied;
\* a step that answers an error writes no event
C30_EventsAfterWrite ==
  [][/\ res'.code >= 400 => sent' = {}
     /\ \A e \in sent' :
          /\ e.type \in {"task_submitted", "task_assigned"}
               => /\ res'.code = 201
                  /\ Len(tasks') = Len(tasks) + 1
                  /\ e.taskId = Len(tasks')
          /\ e.type = "task_completed"
               => /\ res' = [op |-> "complete", code |-> 200]
                  /\ tasks[e.taskId].completedAt = NULL \/ tasks[e.taskId].status # "completed"
                  /\ tasks'[e.taskId].status = "completed"
          /\ e.type = "task_reviewed"
               => /\ res' = [op |-> "review", code |-> 200]
                  /\ \E p \in Procs :
                       /\ Ends(p, "review") /\ req[p].id = e.taskId
                       /\ \/ /\ req[p].pc = "updateTask"
                             /\ ~(req[p].body.status = "approved" /\ req[p].body.points # 0)
                             /\ tasks'[e.taskId].status = req[p].body.status
                             /\ tasks'[e.taskId].reviewedBy = req[p].caller
                          \/ /\ req[p].pc = "updateUserPoints"
                             /\ tasks[e.taskId].reviewedBy = req[p].caller
                             /\ totalPoints'[req[p].task.submittedBy]
                                  = totalPoints[req[p].task.submittedBy] + req[p].body.points]_vars

\* reached: u1's task was approved with 10 points, the credit is stored and the
\* task_reviewed event was written to u1's connection
C30_Witness ==
  /\ res = [op |-> "review", code |-> 200]
  /\ sent = {[conn |-> "c1", type |-> "task_reviewed", taskId |-> 1]}
  /\ clientsGet("u1") = "c1"
  /\ tasks[1].status = "approved" /\ tasks[1].points = 10
  /\ totalPoints["u1"] = 10

====
